---- MODULE Spec2Model ----
(***************************************************************************)
(* A model of the inequality join (src/src/iejoin.rs) and of the nested    *)
(* loop join (src/src/nlj.rs).                                             *)
(*                                                                         *)
(* Indices (l2_idx, idx, start_idx, the usize fields of the L1 and L2      *)
(* entries) keep the 0-based values of the Rust code; the element at index *)
(* k of a Vec v is v[k + 1] of the TLA+ sequence.                          *)
(*                                                                         *)
(* sort_unstable_by / sort_unstable_by_key promise no order among equal    *)
(* keys: a sort is modelled as the set of all arrangements that are in     *)
(* order, and construction picks any of them.                              *)
(***************************************************************************)
EXTENDS Integers, Sequences, FiniteSets, TLC

VARIABLES
    join1,      \* JoinPredicate<T1> handed to InequalityJoin::new
    join2,      \* JoinPredicate<T2> handed to InequalityJoin::new
    status,     \* "new" (not constructed), "iter" (constructed), "panicked", "off"
    perms,      \* the Vec<usize> returned by L1Union::union_and_sort
    l1,         \* InequalityJoin.l1.values
    l2,         \* InequalityJoin.l2.values
    l2_idx,     \* InequalityJoin.l2_idx
    bitvec,     \* InequalityJoin.bitvec: [bitvec, idx, start_idx]
    pull,       \* where the current call of next() stands
    out,        \* the pairs returned so far, in order
    hist,       \* history: for each returned pair, the L2 index, the rank the
                \* scanner returned and the number of the scanner's epoch
    epoch,      \* history: how many times maybe_reset_start moved the start
    nlj_left0,  \* the left sequence NestedLoopJoin::new was given
    nlj_left,   \* NestedLoopJoin.left: what the Peekable has not consumed
    nlj_right,  \* NestedLoopJoin.right
    nlj_right_curr, \* NestedLoopJoin.right_curr: what is left of the clone
    nlj_pred,   \* NestedLoopJoin.pred
    nlj_ret,    \* where the current call of next() stands
    nlj_out     \* the pairs returned so far, in order

iejoin_vars == <<join1, join2, status, perms, l1, l2, l2_idx, bitvec, pull, out, hist, epoch>>
nlj_vars == <<nlj_left0, nlj_left, nlj_right, nlj_right_curr, nlj_pred, nlj_ret, nlj_out>>
vars == <<iejoin_vars, nlj_vars>>

\* Bounds of the model.
MaxLeft == 1
MaxRight == 2
MaxVal == 2
NljMaxLen == 2

Vals == 1..MaxVal

SeqsUpTo(S, n) == UNION {[1..k -> S] : k \in 0..n}

Reverse(s) == [k \in 1..Len(s) |-> s[Len(s) + 1 - k]]

Range(s) == {s[k] : k \in 1..Len(s)}

(***************************************************************************)
(* iejoin.rs                                                               *)
(***************************************************************************)

CmpOp == {"Lt", "LtEq", "Gt", "GtEq"}

\* sort_order with Gt and Lt, not Gt and LtEq, mapped to Desc.
sort_order_strict(op) == IF op \in {"Gt", "Lt"} THEN "Desc" ELSE "Asc"

\* CmpOp::sort_order
sort_order(op) == IF op \in {"Gt", "LtEq"} THEN "Desc" ELSE "Asc"

\* JoinPredicate::new
JoinPredicate(op, left, right) == [op |-> op, left |-> left, right |-> right]

\* Side::is_right
is_right(side) == side = "Right"

\* The results a sort_unstable_by of the records of S on their field v may
\* give: every arrangement of S with v non-decreasing (Asc: v1.cmp(v2)) or
\* non-increasing (Desc: v2.cmp(v1)).
RECURSIVE SortUnstable(_, _)
SortUnstable(S, order) ==
    IF S = {} THEN {<<>>}
    ELSE LET first == {x \in S : \A y \in S :
                          IF order = "Asc" THEN x.v <= y.v ELSE x.v >= y.v}
         IN  UNION {{<<x>> \o t : t \in SortUnstable(S \ {x}, order)} : x \in first}

\* left.enumerate().map(..).chain(right.enumerate().map(..)).collect()
L1Chain(left, right) ==
    [k \in 1..(Len(left) + Len(right)) |->
        IF k <= Len(left)
        THEN [v |-> left[k], side |-> "Left", i |-> k - 1]
        ELSE [v |-> right[k - Len(left)], side |-> "Right", i |-> k - Len(left) - 1]]

\* The results idxs.sort_unstable_by_key(|&idx| &values[idx].0) may give,
\* reversed for Desc.
L1Idxs(values, order) ==
    LET keyed  == {[v |-> values[k].v, ix |-> k - 1] : k \in 1..Len(values)}
        sorted == SortUnstable(keyed, "Asc")
        ixs(s) == [k \in 1..Len(s) |-> s[k].ix]
    IN  {IF order = "Desc" THEN Reverse(ixs(s)) ELSE ixs(s) : s \in sorted}

\* L1Union::union_and_sort: the (idxs, values) pairs it may return.
union_and_sort(left, right, order) ==
    LET values == L1Chain(left, right)
    IN  L1Idxs(values, order) \X SortUnstable(Range(values), order)

\* L2Chain with the index of each entry one too high.
L2ChainOffByOne(left, right) ==
    [k \in 1..(Len(left) + Len(right)) |->
        [v |-> (left \o right)[k], p |-> k]]

\* left.chain(right).enumerate().map(|(idx, v)| (v, idx)).collect()
L2Chain(left, right) ==
    [k \in 1..(Len(left) + Len(right)) |->
        [v |-> (left \o right)[k], p |-> k - 1]]

\* permutations.sort_unstable_by_key(|&(idx, _)| &values[idx].0) indexes values
\* with every rank 0..permutations.len()-1 once it compares anything, that is
\* when there are at least two permutations; the index is out of bounds when
\* values is the shorter.
L2KeyPanics(permutations, values) ==
    Len(permutations) >= 2 /\ Len(permutations) > Len(values)

\* L2Union::union_and_sort_with_permutations: the values it may return. The
\* sorted permutations are dropped; values keeps the index of the chain.
union_and_sort_with_permutations(left, right, order, permutations) ==
    SortUnstable(Range(L2Chain(left, right)), order)

\* L1BitVec::new
L1BitVecNew(size) ==
    [bitvec |-> [k \in 1..size |-> FALSE], idx |-> 0, start_idx |-> 0]

\* maybe_reset_start without the early return.
always_reset_start(bv, start_idx) ==
    [bv EXCEPT !.idx = start_idx, !.start_idx = start_idx]

\* L1BitVec::maybe_reset_start
maybe_reset_start(bv, start_idx) ==
    IF start_idx = bv.start_idx THEN bv
    ELSE [bv EXCEPT !.idx = start_idx, !.start_idx = start_idx]

\* BitVecSet clearing every other bit.
BitVecSetOnly(bv, i) ==
    [bv EXCEPT !.bitvec = [k \in 1..Len(bv.bitvec) |-> k = i + 1]]

\* L1BitVec::set
BitVecSet(bv, i) == [bv EXCEPT !.bitvec[i + 1] = TRUE]

\* BitVecNext without the test of the bit: the index is returned set or not.
BitVecNextIgnoresBit(bv) ==
    IF bv.idx >= Len(bv.bitvec) THEN [some |-> FALSE, val |-> 0, bv |-> bv]
    ELSE [some |-> TRUE, val |-> bv.idx, bv |-> [bv EXCEPT !.idx = @ + 1]]

\* BitVecNext without self.idx += 1 where the bit is set.
RECURSIVE BitVecNextNoAdvance(_)
BitVecNextNoAdvance(bv) ==
    IF bv.idx >= Len(bv.bitvec) THEN [some |-> FALSE, val |-> 0, bv |-> bv]
    ELSE IF bv.bitvec[bv.idx + 1]
         THEN [some |-> TRUE, val |-> bv.idx, bv |-> bv]
         ELSE BitVecNextNoAdvance([bv EXCEPT !.idx = @ + 1])

\* L1BitVec::next: [some, val, bv], the Option returned and the scanner after.
RECURSIVE BitVecNext(_)
BitVecNext(bv) ==
    IF bv.idx >= Len(bv.bitvec) THEN [some |-> FALSE, val |-> 0, bv |-> bv]
    ELSE IF bv.bitvec[bv.idx + 1]
         THEN [some |-> TRUE, val |-> bv.idx, bv |-> [bv EXCEPT !.idx = @ + 1]]
         ELSE BitVecNext([bv EXCEPT !.idx = @ + 1])

\* Vec::get(i).is_some()
InBounds(s, i) == i >= 0 /\ i < Len(s)

\* InequalityJoin::new
New ==
    /\ status = "new"
    /\ \E r1 \in union_and_sort(join1.left, join1.right, sort_order(join1.op)) :
         IF L2KeyPanics(r1[1], L2Chain(join2.left, join2.right))
         THEN /\ status' = "panicked"
              /\ UNCHANGED <<perms, l1, l2, l2_idx, bitvec>>
         ELSE \E r2 \in union_and_sort_with_permutations(
                            join2.left, join2.right, sort_order(join2.op), r1[1]) :
                /\ status' = "iter"
                /\ perms' = r1[1]
                /\ l1' = r1[2]
                /\ l2' = r2
                /\ l2_idx' = 0
                /\ bitvec' = L1BitVecNew(Len(r1[2]))
    /\ UNCHANGED <<join1, join2, pull, out, hist, epoch, nlj_vars>>

\* The L2 entry next() reads, and the scanner after maybe_reset_start.
Entry == l2[l2_idx + 1]
Reset == maybe_reset_start(bitvec, Entry.p)
EpochAfterReset == IF Reset = bitvec THEN epoch ELSE epoch + 1

\* NextNone moving the L2 index on.
NextNoneAdvances ==
    /\ status = "iter"
    /\ ~InBounds(l2, l2_idx)
    /\ pull' = "None"
    /\ l2_idx' = l2_idx + 1
    /\ UNCHANGED <<join1, join2, status, perms, l1, l2, bitvec, out, hist,
                   epoch, nlj_vars>>

\* next(): self.l2.values.get(self.l2_idx) is None
NextNone ==
    /\ status = "iter"
    /\ ~InBounds(l2, l2_idx)
    /\ pull' = "None"
    /\ UNCHANGED <<join1, join2, status, perms, l1, l2, l2_idx, bitvec, out, hist,
                   epoch, nlj_vars>>

\* next(): self.l1.values.get(permuted).unwrap() on None
NextUnwrapPanics ==
    /\ status = "iter"
    /\ InBounds(l2, l2_idx)
    /\ ~InBounds(l1, Entry.p)
    /\ bitvec' = Reset
    /\ epoch' = EpochAfterReset
    /\ status' = "panicked"
    /\ UNCHANGED <<join1, join2, perms, l1, l2, l2_idx, pull, out, hist, nlj_vars>>

\* NextRight setting the bit after the rank.
NextRightSetsNeighbour ==
    /\ status = "iter"
    /\ InBounds(l2, l2_idx)
    /\ InBounds(l1, Entry.p)
    /\ is_right(l1[Entry.p + 1].side)
    /\ l2_idx' = l2_idx + 1
    /\ bitvec' = BitVecSet(Reset, (Entry.p + 1) % Len(l1))
    /\ epoch' = EpochAfterReset
    /\ pull' = "Continue"
    /\ UNCHANGED <<join1, join2, status, perms, l1, l2, out, hist, nlj_vars>>

\* next(): the row at the rank is a right row
NextRight ==
    /\ status = "iter"
    /\ InBounds(l2, l2_idx)
    /\ InBounds(l1, Entry.p)
    /\ is_right(l1[Entry.p + 1].side)
    /\ l2_idx' = l2_idx + 1
    /\ bitvec' = BitVecSet(Reset, Entry.p)
    /\ epoch' = EpochAfterReset
    /\ pull' = "Continue"
    /\ UNCHANGED <<join1, join2, status, perms, l1, l2, out, hist, nlj_vars>>

\* next(): a left row, and the scanner returns an index
NextSome ==
    /\ status = "iter"
    /\ InBounds(l2, l2_idx)
    /\ InBounds(l1, Entry.p)
    /\ ~is_right(l1[Entry.p + 1].side)
    /\ LET n == BitVecNext(Reset) IN
         /\ n.some
         /\ bitvec' = n.bv
         /\ IF InBounds(l1, n.val)
            THEN /\ out' = Append(out, <<l1[n.val + 1].v, Entry.v>>)
                 /\ hist' = Append(hist, [l2i |-> l2_idx, rank |-> n.val,
                                          ep |-> EpochAfterReset])
                 /\ pull' = "Some"
                 /\ status' = status
            ELSE /\ status' = "panicked"
                 /\ UNCHANGED <<out, hist, pull>>
    /\ epoch' = EpochAfterReset
    /\ UNCHANGED <<join1, join2, perms, l1, l2, l2_idx, nlj_vars>>

\* NextExhausted without the last self.l2_idx += 1.
NextExhaustedStuck ==
    /\ status = "iter"
    /\ InBounds(l2, l2_idx)
    /\ InBounds(l1, Entry.p)
    /\ ~is_right(l1[Entry.p + 1].side)
    /\ LET n == BitVecNext(Reset) IN
         /\ ~n.some
         /\ bitvec' = n.bv
    /\ epoch' = EpochAfterReset
    /\ pull' = "Continue"
    /\ UNCHANGED <<join1, join2, status, perms, l1, l2, l2_idx, out, hist, nlj_vars>>

\* next(): a left row, and the scanner is exhausted
NextExhausted ==
    /\ status = "iter"
    /\ InBounds(l2, l2_idx)
    /\ InBounds(l1, Entry.p)
    /\ ~is_right(l1[Entry.p + 1].side)
    /\ LET n == BitVecNext(Reset) IN
         /\ ~n.some
         /\ bitvec' = n.bv
    /\ l2_idx' = l2_idx + 1
    /\ epoch' = EpochAfterReset
    /\ pull' = "Continue"
    /\ UNCHANGED <<join1, join2, status, perms, l1, l2, out, hist, nlj_vars>>

NljOff ==
    /\ nlj_left0 = <<>> /\ nlj_left = <<>> /\ nlj_right = <<>>
    /\ nlj_right_curr = <<>> /\ nlj_pred = "false" /\ nlj_ret = "Idle"
    /\ nlj_out = <<>>

\* tests::simple
SimpleJoin1 == JoinPredicate("Gt", <<100, 140, 80, 90>>, <<100, 140, 80, 90>>)
SimpleJoin2 == JoinPredicate("Lt", <<6, 11, 10, 5>>, <<6, 11, 10, 5>>)

\* The state before InequalityJoin::new, whatever the predicates hold.
Unbuilt ==
    /\ status = "new"
    /\ perms = <<>> /\ l1 = <<>> /\ l2 = <<>> /\ l2_idx = 0
    /\ bitvec = L1BitVecNew(0)
    /\ pull = "Idle" /\ out = <<>> /\ hist = <<>> /\ epoch = 0
    /\ NljOff

\* Any two predicates within the bounds, their lengths agreeing or not.
InitBounded ==
    /\ join1 \in {JoinPredicate(op, l, r) :
                     op \in CmpOp, l \in SeqsUpTo(Vals, MaxLeft),
                     r \in SeqsUpTo(Vals, MaxRight)}
    /\ join2 \in {JoinPredicate(op, l, r) :
                     op \in CmpOp, l \in SeqsUpTo(Vals, MaxLeft),
                     r \in SeqsUpTo(Vals, MaxRight)}
    /\ Unbuilt

\* The predicates of tests::simple.
InitSimple == join1 = SimpleJoin1 /\ join2 = SimpleJoin2 /\ Unbuilt

Init == InitBounded \/ InitSimple

Next == New \/ NextNone \/ NextUnwrapPanics \/ NextRight \/ NextSome \/ NextExhausted

Spec == Init /\ [][Next]_vars

\* The consumer drains the iterator: it keeps pulling.
FairSpec == InitBounded /\ [][Next]_vars /\ WF_vars(Next)

(***************************************************************************)
(* nlj.rs                                                                  *)
(***************************************************************************)

\* The predicates a caller may hand to NestedLoopJoin::new: the closures of
\* tests::equality, tests::fixed_ranges and tests::out_of_order, and others.
NljPreds == {"eq", "near", "gt", "lt", "true", "false"}

\* (self.pred)(left, &right)
NljPred(f, a, b) ==
    CASE f = "eq"    -> a = b
      [] f = "near"  -> b >= a - 1 /\ b <= a + 1
      [] f = "gt"    -> a > b
      [] f = "lt"    -> a < b
      [] f = "true"  -> TRUE
      [] OTHER       -> FALSE

\* while let Some(right) = self.right_curr.next(): the iterator is advanced
\* past every element tried; [some, val, rest].
RECURSIVE NljScan(_, _, _)
NljScan(f, left, right_curr) ==
    IF right_curr = <<>> THEN [some |-> FALSE, val |-> 0, rest |-> <<>>]
    ELSE IF NljPred(f, left, Head(right_curr))
         THEN [some |-> TRUE, val |-> Head(right_curr), rest |-> Tail(right_curr)]
         ELSE NljScan(f, left, Tail(right_curr))

\* next(): self.left.peek() is None
NljNone ==
    /\ status = "off"
    /\ nlj_left = <<>>
    /\ nlj_ret' = "None"
    /\ UNCHANGED <<nlj_left0, nlj_left, nlj_right, nlj_right_curr, nlj_pred, nlj_out,
                   iejoin_vars>>

\* next(): the inner loop finds a right element the predicate accepts
NljSome ==
    /\ status = "off"
    /\ nlj_left # <<>>
    /\ LET n == NljScan(nlj_pred, Head(nlj_left), nlj_right_curr) IN
         /\ n.some
         /\ nlj_right_curr' = n.rest
         /\ nlj_out' = Append(nlj_out, <<Head(nlj_left), n.val>>)
    /\ nlj_ret' = "Some"
    /\ UNCHANGED <<nlj_left0, nlj_left, nlj_right, nlj_pred, iejoin_vars>>

\* NljAdvance without self.right_curr = self.right.clone().
NljAdvanceNoRestart ==
    /\ status = "off"
    /\ nlj_left # <<>>
    /\ ~NljScan(nlj_pred, Head(nlj_left), nlj_right_curr).some
    /\ nlj_left' = Tail(nlj_left)
    /\ nlj_right_curr' = <<>>
    /\ nlj_ret' = "Continue"
    /\ UNCHANGED <<nlj_left0, nlj_right, nlj_pred, nlj_out, iejoin_vars>>

\* next(): the inner loop ends; the left element is consumed and the right
\* iterator cloned again
NljAdvance ==
    /\ status = "off"
    /\ nlj_left # <<>>
    /\ ~NljScan(nlj_pred, Head(nlj_left), nlj_right_curr).some
    /\ nlj_left' = Tail(nlj_left)
    /\ nlj_right_curr' = nlj_right
    /\ nlj_ret' = "Continue"
    /\ UNCHANGED <<nlj_left0, nlj_right, nlj_pred, nlj_out, iejoin_vars>>

\* NestedLoopJoin::new over bounded inputs; the inequality join is not built.
NljInit ==
    /\ nlj_left0 \in SeqsUpTo(Vals, NljMaxLen)
    /\ nlj_left = nlj_left0
    /\ nlj_right \in SeqsUpTo(Vals, NljMaxLen)
    /\ nlj_right_curr = nlj_right
    /\ nlj_pred \in NljPreds
    /\ nlj_ret = "Idle"
    /\ nlj_out = <<>>
    /\ join1 = JoinPredicate("Lt", <<>>, <<>>)
    /\ join2 = JoinPredicate("Lt", <<>>, <<>>)
    /\ status = "off"
    /\ perms = <<>> /\ l1 = <<>> /\ l2 = <<>> /\ l2_idx = 0
    /\ bitvec = L1BitVecNew(0)
    /\ pull = "Idle" /\ out = <<>> /\ hist = <<>> /\ epoch = 0

NljNext == NljNone \/ NljSome \/ NljAdvance

NljSpec == NljInit /\ [][NljNext]_vars

(***************************************************************************)
(* Properties                                                              *)
(***************************************************************************)

\* The two predicates describe the same rows: their per-side lengths agree.
WellFormed ==
    /\ Len(join1.left) = Len(join2.left)
    /\ Len(join1.right) = Len(join2.right)

\* The iterator has returned None.
Drained == status = "iter" /\ pull = "None"

\* The comparison a CmpOp stands for.
Cmp(op, a, b) ==
    CASE op = "Lt"   -> a < b
      [] op = "LtEq" -> a <= b
      [] op = "Gt"   -> a > b
      [] OTHER       -> a >= b

\* The (left row, right row) combinations satisfying both predicates.
Matches ==
    {m \in (1..Len(join1.left)) \X (1..Len(join1.right)) :
        /\ Cmp(join1.op, join1.left[m[1]], join1.right[m[2]])
        /\ Cmp(join2.op, join2.left[m[1]], join2.right[m[2]])}

\* The (A value, B value) pair standing for a combination: each value taken
\* from the left row ("L") or from the right row ("R").
PairOf(c, m) ==
    << IF c[1] = "L" THEN join1.left[m[1]] ELSE join1.right[m[2]],
       IF c[2] = "L" THEN join2.left[m[1]] ELSE join2.right[m[2]] >>

Conventions == {<<"L", "L">>, <<"L", "R">>, <<"R", "L">>, <<"R", "R">>}

\* The output, as a multiset, is the brute-force result under convention c.
OutIsBruteForce(c) ==
    \A pr \in Range(out) \cup {PairOf(c, m) : m \in Matches} :
        Cardinality({k \in 1..Len(out) : out[k] = pr})
            = Cardinality({m \in Matches : PairOf(c, m) = pr})

\* C1: for well-formed predicates, draining InequalityJoin yields exactly one
\* pair per (left row, right row) combination satisfying both comparisons and
\* no other pair: the output multiset is the brute-force result (whichever
\* row each value of a pair is taken from).
C1_OutputEqualsBruteForce ==
    (WellFormed /\ Drained) => \E c \in Conventions : OutIsBruteForce(c)

IsSimple == join1 = SimpleJoin1 /\ join2 = SimpleJoin2

\* C2: on the input of tests::simple the drained output is exactly
\* (100, 10), (90, 10).
C2_SimpleOutput ==
    (IsSimple /\ Drained) => out = << <<100, 10>>, <<90, 10>> >>

\* The pairs a nested loop gives: for each left element in order, the right
\* elements the predicate accepts, in order.
RECURSIVE NljExpected(_, _, _)
NljExpected(f, left, right) ==
    IF left = <<>> THEN <<>>
    ELSE LET hits == SelectSeq(right, LAMBDA r : NljPred(f, Head(left), r))
         IN  [k \in 1..Len(hits) |-> <<Head(left), hits[k]>>]
                 \o NljExpected(f, Tail(left), right)

IsPrefix(s, t) == Len(s) <= Len(t) /\ \A k \in 1..Len(s) : s[k] = t[k]

\* C3: NestedLoopJoin yields the pairs the predicate accepts, once per (left
\* position, right position), left-major and right-minor: what it has returned
\* is always a prefix of that list, and all of it once it returns None.
C3_NljLeftMajor ==
    LET want == NljExpected(nlj_pred, nlj_left0, nlj_right) IN
    /\ IsPrefix(nlj_out, want)
    /\ nlj_ret = "None" => nlj_out = want

\* A drained nested loop join whose two equal left elements each matched both
\* right elements: the right sequence was restarted.
C3_Witness ==
    /\ nlj_ret = "None"
    /\ Len(nlj_left0) >= 2 /\ nlj_left0[1] = nlj_left0[2]
    /\ Len(nlj_right) >= 2 /\ nlj_pred = "gt"
    /\ Len(nlj_out) = 4

EmptySide == join1.left = <<>> \/ join1.right = <<>>

\* C4: with the left side or the right side empty in both predicates, no pull
\* returns a pair or fails: the output stays empty.
C4_EmptySideEmptyOutput ==
    (WellFormed /\ EmptySide) =>
        /\ out = <<>>
        /\ pull \in {"Idle", "Continue", "None"}
        /\ status # "panicked"

\* A drained join with no right rows and a left row, which went to the scanner.
C4_Witness ==
    /\ Drained
    /\ join1.right = <<>> /\ join2.right = <<>>
    /\ Len(join1.left) >= 1 /\ Len(join2.left) >= 1

EmptyPredicate(j) == j.left = <<>> /\ j.right = <<>>

\* C5: when one predicate has both columns empty, the join does not fail and
\* yields nothing, whatever the other predicate holds.
C5_EmptyPredicateEmptyOutput ==
    (EmptyPredicate(join1) \/ EmptyPredicate(join2)) =>
        (status # "panicked" /\ out = <<>>)

\* C6: predicates whose per-side lengths disagree are rejected by
\* InequalityJoin::new: no iterator is built from them.
C6_MismatchRejected == ~WellFormed => status # "iter"

\* C7: for well-formed predicates no pull fails: the rank of every L2 entry
\* is an index of L1 and of the bit array, and every rank the scanner
\* returned is an index of L1.
C7_NoPullFails ==
    WellFormed =>
        /\ status # "panicked"
        /\ status = "iter" =>
             /\ Len(bitvec.bitvec) = Len(l1)
             /\ \A k \in 1..Len(l2) : InBounds(l1, l2[k].p)
             /\ \A k \in 1..Len(hist) : InBounds(l1, hist[k].rank)

\* A drained join over well-formed predicates that returned two pairs.
C7_Witness == WellFormed /\ Drained /\ Len(out) >= 2

\* Every loop iteration of next() that does not return advances the L2 index
\* by one and yields nothing; one that returns a pair yields exactly one and
\* keeps the index; None is returned only with the index at the end of L2.
PullStep ==
    (status = "iter" /\ status' = "iter") =>
        /\ pull' = "Continue" => (l2_idx' = l2_idx + 1 /\ out' = out)
        /\ pull' = "Some" => (l2_idx' = l2_idx /\ Len(out') = Len(out) + 1)
        /\ pull' = "None" => (l2_idx' = Len(l2) /\ l2_idx' = l2_idx /\ out' = out)

\* C8: for well-formed predicates the pulls end: the iterator eventually
\* returns None, every iteration that yields nothing advances the L2 index
\* and every other yields one pair.
C8_PullsTerminate ==
    /\ WellFormed => <>Drained
    /\ [][PullStep]_vars

\* A drained join that returned a pair and skipped an exhausted left row.
C8_Witness ==
    /\ WellFormed /\ Drained /\ Len(out) >= 1
    /\ l2_idx = Len(l2) /\ Len(l2) >= 3

\* C9: the ranks the scanner returns for one L2 entry strictly increase, and
\* so do the ranks returned within one epoch of the scanner: no rank is
\* returned twice without a reset to another start.
C9_RanksIncrease ==
    \A a, b \in 1..Len(hist) :
        (a < b /\ (hist[a].l2i = hist[b].l2i \/ hist[a].ep = hist[b].ep))
            => hist[a].rank < hist[b].rank

\* Two pairs were returned for the same L2 entry.
C9_Witness ==
    \E a, b \in 1..Len(hist) :
        a < b /\ hist[a].l2i = hist[b].l2i /\ hist[a].ep = hist[b].ep

\* C10: with GtEq and LtEq and every left A value below every right A value
\* the output is empty.
C10_DisjointEmptyOutput ==
    ( /\ WellFormed
      /\ join1.op = "GtEq" /\ join2.op = "LtEq"
      /\ \A i \in 1..Len(join1.left), j \in 1..Len(join1.right) :
            join1.left[i] < join1.right[j] )
        => out = <<>>

\* The index, in the chain of left rows followed by right rows, of the row an
\* L1 entry was built from.
ChainIndex(e) == IF e.side = "Left" THEN e.i ELSE Len(join1.left) + e.i

\* C11: after construction the second field of every row's L2 entry is the
\* rank of that row in L1: the L1 entry at that rank is a row whose B value is
\* the entry's value, and no two L2 entries name the same rank.
C11_L2HoldsL1Rank ==
    (WellFormed /\ status = "iter") =>
        /\ \A k \in 1..Len(l2) :
              /\ InBounds(l1, l2[k].p)
              /\ (join2.left \o join2.right)[ChainIndex(l1[l2[k].p + 1]) + 1] = l2[k].v
        /\ \A j, k \in 1..Len(l2) : l2[j].p = l2[k].p => j = k

\* C12: the permutation returned with L1 names, for every rank, the chain
\* index of the row L1 holds at that rank.
C12_PermsMatchL1 ==
    status = "iter" =>
        /\ Len(perms) = Len(l1)
        /\ \A r \in 1..Len(l1) : perms[r] = ChainIndex(l1[r])

\* C13: right rows never produce output: the B value of every pair returned
\* is the B value of a left row, taken from an L2 entry of a left row.
C13_OutputFromLeftRows ==
    WellFormed => \A k \in 1..Len(out) : out[k][2] \in Range(join2.left)

\* The ranks whose bit is set.
SetBits(bv) == {k \in 0..(Len(bv.bitvec) - 1) : bv.bitvec[k + 1]}

\* C14: activation bits are monotone: no step of the iterator clears a bit or
\* resizes the array, and setting a bit that is set changes nothing.
C14_BitsMonotone ==
    /\ [][(status = "iter" /\ status' \in {"iter", "panicked"}) =>
            /\ Len(bitvec'.bitvec) = Len(bitvec.bitvec)
            /\ SetBits(bitvec) \subseteq SetBits(bitvec')]_vars
    /\ [](\A i \in SetBits(bitvec) : BitVecSet(bitvec, i) = bitvec)

\* Two bits are set, and pulls went on after the second was set.
C14_Witness ==
    /\ status = "iter" /\ Cardinality(SetBits(bitvec)) >= 2
    /\ pull = "None"

\* The scanner with its scan index at i.
ScannerAt(i) == [bitvec EXCEPT !.idx = i]

\* C15: from scan index i the scanner returns the smallest set index j >= i
\* and stops at j + 1, or is exhausted with the scan index at the length of
\* the array; it changes neither the bits nor the start index.
C15_AdvanceFindsNextSetBit ==
    \A i \in 0..Len(bitvec.bitvec) :
        LET n    == BitVecNext(ScannerAt(i))
            from == {j \in SetBits(bitvec) : j >= i}
        IN  /\ n.bv.bitvec = bitvec.bitvec
            /\ n.bv.start_idx = bitvec.start_idx
            /\ n.some <=> from # {}
            /\ n.some => /\ n.val \in from
                         /\ \A j \in from : n.val <= j
                         /\ n.bv.idx = n.val + 1
            /\ ~n.some => n.bv.idx = Len(bitvec.bitvec)

\* The scanner returned a rank after skipping an unset bit.
C15_Witness ==
    \E k \in 1..Len(hist) : hist[k].rank > l2[hist[k].l2i + 1].p + 1

\* C16: reset_start to the current start changes nothing; to another start
\* it sets the scan index and the start index to it and keeps the bits. So
\* each iteration of next() leaves the start at the rank of its L2 entry, and
\* does not move the scan index back when that rank is the current start.
C16_ResetStart ==
    /\ [](\A s \in 0..Len(bitvec.bitvec) :
            LET r == maybe_reset_start(bitvec, s) IN
            IF s = bitvec.start_idx THEN r = bitvec
            ELSE /\ r.idx = s /\ r.start_idx = s
                 /\ r.bitvec = bitvec.bitvec)
    /\ [][(status = "iter" /\ status' = "iter" /\ InBounds(l2, l2_idx)) =>
            /\ bitvec'.start_idx = Entry.p
            /\ Entry.p = bitvec.start_idx => bitvec'.idx >= bitvec.idx
            /\ Entry.p # bitvec.start_idx => bitvec'.idx >= Entry.p]_vars

\* next() is entered again on the L2 entry that has just yielded a pair: the
\* reset is to the current start, with the scan index past it.
C16_Witness ==
    /\ status = "iter" /\ pull = "Some" /\ InBounds(l2, l2_idx)
    /\ Entry.p = bitvec.start_idx /\ bitvec.idx > bitvec.start_idx

NonIncreasing(s) == \A k \in 1..(Len(s) - 1) : s[k].v >= s[k + 1].v
NonDecreasing(s) == \A k \in 1..(Len(s) - 1) : s[k].v <= s[k + 1].v

\* C17: sort_order maps > and <= to Descending and < and >= to Ascending, and
\* new sorts L1 in the order of predicate-1's operator and L2 in the order of
\* predicate-2's.
C17_SortOrders ==
    /\ sort_order("Gt") = "Desc" /\ sort_order("LtEq") = "Desc"
    /\ sort_order("Lt") = "Asc" /\ sort_order("GtEq") = "Asc"
    /\ status = "iter" =>
         /\ IF join1.op \in {"Gt", "LtEq"} THEN NonIncreasing(l1) ELSE NonDecreasing(l1)
         /\ IF join2.op \in {"Gt", "LtEq"} THEN NonIncreasing(l2) ELSE NonDecreasing(l2)

\* A join built with L1 strictly descending and L2 strictly ascending.
C17_Witness ==
    /\ status = "iter" /\ join1.op = "LtEq" /\ join2.op = "GtEq"
    /\ Len(l1) >= 2 /\ l1[1].v > l1[Len(l1)].v
    /\ Len(l2) >= 2 /\ l2[1].v < l2[Len(l2)].v

\* C18: the set bits are exactly the ranks recorded by the L2 entries already
\* passed whose L1 entry is on the Right side; so every A value returned is
\* the A value of a right row.
C18_BitsAreRightRanks ==
    status = "iter" =>
        /\ SetBits(bitvec) =
             {l2[k].p : k \in {j \in 1..l2_idx : is_right(l1[l2[j].p + 1].side)}}
        /\ \A k \in 1..Len(hist) : l1[hist[k].rank + 1].side = "Right"
        /\ \A k \in 1..Len(out) : out[k][1] \in Range(join1.right)

\* A pair was returned with two bits set.
C18_Witness ==
    /\ status = "iter" /\ Len(out) >= 1
    /\ Cardinality(SetBits(bitvec)) >= 2

\* C19: once next() has returned None every later call returns None and
\* changes nothing; the L2 index never passes the end of L2 and the scanner
\* keeps start index <= scan index <= length of the bit array.
C19_FusedAndInRange ==
    /\ [][(status = "iter" /\ pull = "None") =>
            /\ pull' = "None" /\ status' = "iter"
            /\ l2_idx' = l2_idx /\ bitvec' = bitvec /\ out' = out]_vars
    /\ [](status = "iter" =>
            /\ l2_idx <= Len(l2)
            /\ bitvec.start_idx <= bitvec.idx
            /\ bitvec.idx <= Len(bitvec.bitvec))

\* A drained join whose scanner ran to the end of the bit array.
C19_Witness ==
    /\ Drained /\ Len(l2) >= 2 /\ l2_idx = Len(l2)
    /\ bitvec.idx = Len(bitvec.bitvec) /\ bitvec.idx > bitvec.start_idx

====
